---- MODULE Spec2Model ----
(***************************************************************************)
(* Conversation synchronisation of the Companion AI frontend.              *)
(*                                                                         *)
(* The model covers the Chat Orchestrator (ChatInterface.tsx), the Sync    *)
(* Engine (the current revision of hooks/useConversationSync.ts, lines     *)
(* 1-244), the History Loader entry point (home.tsx loadPastConversation)  *)
(* and the remote store they talk to.  Execution is single-threaded: one   *)
(* action of the model is one run-to-completion piece of JavaScript, from  *)
(* an event (user input, timer, network response) up to the next await     *)
(* that needs the network.  React state updates made in one such piece are *)
(* committed together and the effects whose dependencies changed run in    *)
(* the same action, in the order the hooks are declared.                   *)
(*                                                                         *)
(* A remote read returns the table as it is when its response is handled;  *)
(* a remote write takes effect when its response is handled.  Where an     *)
(* operation sends two requests in a row and neither reads nor writes      *)
(* shared state between them (the users lookup followed by the insert into *)
(* conversations, or by the upsert of messages), the two answers are one   *)
(* action: the first answer is invisible to everything else.               *)
(*                                                                         *)
(* loadPastConversation is followed along the path on which it finds the   *)
(* chat mounted (chatInterfaceRef.current set) and calls loadConversation. *)
(***************************************************************************)
EXTENDS Integers, Sequences, FiniteSets, TLC

\* ----- bounds of the model ------------------------------------------------
\* Events from outside the program in one behaviour: messages sent, lifecycle
\* signals, conversations opened from the history tab and page reloads.
\* Everything else (timers, network answers, effects) follows from these.
MaxEvents == 2
\* syncMessages passes in flight at the same time
MaxProc == 2
\* remote store operations answering with an error
MaxFails == 1
\* length of the message list at the start, where a long list is needed
MaxList == 22
\* conversations in the remote store at the start, where the history is handled
MaxConvs == 3

\* ----- values ---------------------------------------------------------------
\* "no conversation id" (null / undefined); conversation ids are 1, 2, ...
NoConv == 0
\* users.id of the signed-in user's row
UserRowId == 1
\* userRow?.id when the lookup finds no row
NoUser == 0
\* "no continuation token" (response_id null / undefined)
NoToken == 0
\* messages of the list sent along with a request: .slice(-20)
HistoryWindow == 20
\* owner entry of a conversation row that was deleted
Deleted == 2

VARIABLES
    auth,                     \* userUUID && isAuthenticated (AuthContext)
    messages,                 \* ChatInterface state: the message list
    conversationId,           \* ChatInterface state: active conversation id
    isLoading,                \* ChatInterface state: a completion call is pending
    isLoadingConversation,    \* ChatInterface state: a conversation is being loaded
    req,                      \* the pending /query request
    lsMessages,               \* localStorage companionai-messages-<user>
    currentConversationIdRef, \* Sync Engine: cached conversation id
    syncedMessageIdsRef,      \* Sync Engine: synced-id set
    isSyncingRef,             \* Sync Engine: re-entrancy flag
    isInitializedRef,         \* Sync Engine: synced-id set loaded flag
    syncTimeoutRef,           \* Sync Engine: the timer of the ref is pending
    timers,                   \* number of debounce timers pending (setTimeout)
    passes,                   \* syncMessages / ensureConversationExists calls in flight
    iifes,                    \* switch handlers awaiting their loadSyncedMessages
    conversations,            \* remote table conversations: owner of conversation i
    rows,                     \* remote table conversation_messages
    nextId,                   \* next message id to be generated
    nEvents,                  \* outside events so far
    nFails,                   \* remote store and local storage errors so far
    sidebar,                  \* SidebarNavigation: list shown, deletion in progress
    loadState,                \* ChatInterface: messagesLoaded and the props of home.tsx
    hist                      \* observations used to state the properties

vars == <<auth, messages, conversationId, isLoading, isLoadingConversation, req, lsMessages,
          currentConversationIdRef, syncedMessageIdsRef, isSyncingRef,
          isInitializedRef, syncTimeoutRef, timers, passes, iifes, conversations, rows,
          nextId, nEvents, nFails, sidebar, loadState, hist>>

\* ----- messages -------------------------------------------------------------
\* A message; its content is a text of its own, told apart by the id.
Message(id, sender, boiler, rid) ==
    [id |-> id, sender |-> sender, isBoilerplate |-> boiler, response_id |-> rid,
     content |-> id]

getDefaultMessages(id) == << Message(id, "ai", TRUE, NoToken) >>

isBoilerplateMessage(m) == m.isBoilerplate

IdsOf(list) == { list[i].id : i \in 1..Len(list) }

NonBoilerIds(list) == { list[i].id : i \in { j \in 1..Len(list) : ~list[j].isBoilerplate } }

\* The filter without its boilerplate test.
UnsyncedKeepBoilerplate(list, synced) ==
    SelectSeq(list, LAMBDA m : m.id \notin synced)

\* messages.filter(m => !synced.has(m.id) && !isBoilerplateMessage(m))
Unsynced(list, synced) ==
    SelectSeq(list, LAMBDA m : m.id \notin synced /\ ~isBoilerplateMessage(m))

\* ----- observations ------------------------------------------------------------
\* hist.done: the message list of the syncMessages pass that ended last,
\* whether it ended well with the synced-id set untouched by anyone else since,
\* and the ids it left unwritten because a remote operation failed.
NoDone == [some |-> FALSE, msgs |-> << >>, valid |-> FALSE, left |-> {}]

\* hist.fin: the pass that ended in the step leading to this state; fail names
\* the remote operation that failed, same tells that the step left the
\* synced-id set as it found it, still that the ids the failure affected are
\* outside the set, stored that those of them inside the set are in the table.
NoFin == [some |-> FALSE, force |-> FALSE, ok |-> FALSE, covered |-> TRUE, dup |-> FALSE,
          fail |-> "none", same |-> TRUE, still |-> TRUE, stored |-> TRUE]

\* The remote operations of a pass whose failure ends the pass.
EndingFailures == {"ensure", "user", "upsert"}

\* hist.issued: the upsert request sent in the step leading to this state.
NoIssue == [some |-> FALSE, ids |-> {}, conv |-> NoConv, origin |-> "none",
            old |-> NoConv, new |-> NoConv, incoming |-> {}, loaded |-> {},
            skipped |-> {}, pending |-> FALSE, dup |-> FALSE, dup0 |-> FALSE,
            landed |-> FALSE, superseded |-> FALSE, retry |-> {}, moved |-> {}]

\* hist.settled: the completion call that settled in the step leading to this
\* state: was the user message it answers in the list the answer was appended to?
\* handleSignOut: the pre-sign-out signal was dispatched / the session ended.
\* ids: the unsynced non-boilerplate messages at the dispatch; lost: those of
\* them not in the remote store when the user data was cleared.
NoLeaving == [on |-> FALSE, ids |-> {}]

NoOut == [some |-> FALSE, lost |-> {}]

NoSettle == [some |-> FALSE, rejected |-> FALSE, userThere |-> TRUE]

\* ----- the Sync Engine as a value ------------------------------------------
\* The refs of useConversationSync, the operations in flight and the React
\* conversation id, gathered so that the pieces of one action can be composed.
Eng ==
    [ref |-> currentConversationIdRef, init |-> isInitializedRef,
     synced |-> syncedMessageIdsRef, syncing |-> isSyncingRef,
     passes |-> passes, iifes |-> iifes,
     cid |-> conversationId,
     h |-> [hist EXCEPT !.issued = NoIssue, !.fin = NoFin, !.settled = NoSettle,
                        !.opened = FALSE]]

SetEng(e) ==
    /\ currentConversationIdRef' = e.ref
    /\ isInitializedRef' = e.init
    /\ syncedMessageIdsRef' = e.synced
    /\ isSyncingRef' = e.syncing
    /\ passes' = e.passes
    /\ iifes' = e.iifes
    /\ conversationId' = e.cid
    /\ hist' = e.h

\* No switch handler awaits the pass / the handler that will adopt conv.
NoWaiter == [waits |-> FALSE, conv |-> NoConv]

Waiter(conv) == [waits |-> TRUE, conv |-> conv]

\* One call of syncMessages (or, origin "mount", of ensureConversationExists
\* from the mount effect).  msgs is the message list captured by the closure,
\* k tells apart calls that are otherwise alike, then is the switch handler
\* awaiting the call.  old, new and incoming describe the switch that started
\* the call; allok .. superseded are observations: busy tells that another
\* call was in flight when this one started, superseded that a forced call
\* started while this one was in flight.
NewPass(origin, k, force, msgs, then, old, new, incoming) ==
    [origin |-> origin, k |-> k, force |-> force, msgs |-> msgs, pc |-> "start",
     convId |-> NoConv, unsynced |-> << >>, then |-> then,
     old |-> old, new |-> new, incoming |-> incoming,
     allok |-> TRUE, clean |-> FALSE, dup |-> FALSE, dup0 |-> FALSE,
     pending |-> FALSE, loaded |-> {}, busy |-> FALSE, superseded |-> FALSE,
     fail |-> "none", retry |-> {}]

FreshK(e, origin) ==
    CHOOSE k \in 0..Cardinality(e.passes) :
        /\ \A q \in e.passes : q.origin = origin => q.k # k
        /\ \A j \in 0..(k - 1) : \E q \in e.passes : q.origin = origin /\ q.k = j

SamePass(p, q) == p.origin = q.origin /\ p.k = q.k

Put(e, p) ==
    [e EXCEPT !.passes = { q \in @ : ~SamePass(p, q) } \cup {p}]

Drop(e, p) ==
    [e EXCEPT !.passes = { q \in @ : ~SamePass(p, q) }]

InFlight(e) == Cardinality({ q \in e.passes : q.origin # "mount" })

\* The synced-id set was cleared or replaced: what earlier passes established
\* about it no longer stands.
Unsettle(e) ==
    [e EXCEPT !.passes = { [q EXCEPT !.clean = FALSE] : q \in @ },
              !.h.done.valid = FALSE]

\* loadSyncedMessages(conv) once its select has answered, followed by the
\* caller's isInitializedRef.current = true.
LoadSynced(e, conv, ok, rws) ==
    LET got == IF ok THEN { r.id : r \in { x \in rws : x.conv = conv } } ELSE {}
        e1  == Unsettle([e EXCEPT !.synced = got, !.init = TRUE,
                                  !.h.pend = @ \ {conv},
                                  !.h.seen = @ \cup { <<i, conv>> : i \in got }])
    IN  [e1 EXCEPT !.passes =
            { IF q.convId = conv THEN [q EXCEPT !.pending = FALSE] ELSE q : q \in @ }]

\* Switch handler lines 177-182: adopt the supplied id, reset, start the reload.
Adopt(e, cid) ==
    LET e1 == Unsettle([e EXCEPT !.ref = cid, !.init = FALSE, !.synced = {}])
        k  == CHOOSE k \in 0..Cardinality(e.iifes) :
                  /\ [conv |-> cid, k |-> k] \notin e.iifes
                  /\ \A j \in 0..(k - 1) : [conv |-> cid, k |-> j] \in e.iifes
    IN  IF cid # NoConv
          THEN [e1 EXCEPT !.iifes = @ \cup {[conv |-> cid, k |-> k]},
                          !.h.pend = @ \cup {cid}]
          ELSE e1

\* An end of pass that leaves the flag as it is.
FlagKept(flag) == flag

\* Lines 143-145, finally: isSyncingRef.current = false.
Finally(flag) == FALSE

\* The end of a syncMessages pass: the finally block, then the switch handler
\* awaiting this pass (if any) resumes.
Finish(e, p) ==
    LET affected == CASE p.fail = "ensure" -> NonBoilerIds(p.msgs) \ e.synced
                      [] p.fail \in {"user", "upsert"} -> IdsOf(p.unsynced)
                      [] OTHER -> {}
        e1 == [Drop(e, p) EXCEPT
                   !.syncing = Finally(@),
                   !.h.done = [some |-> TRUE, msgs |-> p.msgs,
                               valid |-> p.allok /\ p.clean, left |-> affected],
                   !.h.fin = [some |-> TRUE, force |-> p.force, ok |-> p.allok,
                              covered |-> NonBoilerIds(p.msgs) \subseteq e.synced,
                              dup |-> p.dup, fail |-> p.fail,
                              same |-> e.synced = syncedMessageIdsRef,
                              still |-> affected \cap e.synced = {},
                              stored |-> (affected \cap e.synced) \subseteq
                                             { r.id : r \in rows }]]
    IN  IF p.then.waits THEN Adopt(e1, p.then.conv) ELSE e1

\* syncMessages lines 98-105: compute the unsynced subset, return if there is
\* nothing to do and the call is not forced, else look the user up.
AfterInit(e, p) ==
    LET uns == Unsynced(p.msgs, e.synced)
        p1 == [p EXCEPT !.unsynced = uns, !.clean = TRUE,
                        !.dup = e.h.done.some /\ e.h.done.valid /\ e.h.done.msgs = p.msgs,
                        !.dup0 = e.h.done.some /\ e.h.done.msgs = p.msgs,
                        !.pending = p.convId \in e.h.pend,
                        !.retry = e.h.done.left \cap IdsOf(p.msgs),
                        !.loaded = e.h.loadedIds]
    IN  IF Len(uns) = 0 /\ ~p.force
          THEN Finish(e, p1)
          ELSE Put(e, [p1 EXCEPT !.pc = "write"])

\* syncMessages lines 93-96: load the synced-id set first if not initialised.
AfterConv(e, p) ==
    IF ~e.init THEN Put(e, [p EXCEPT !.pc = "load"]) ELSE AfterInit(e, p)

\* A user test that lets everybody through.
NeverUnauthenticated == FALSE

\* !userUUID || !isAuthenticated (lines 40 and 82; negated at line 157)
Unauthenticated == ~auth

\* syncMessages lines 82-83: the guards of a pass.
CanSync(e, force) == ~Unauthenticated /\ ~(e.syncing /\ ~force)

\* syncMessages lines 82-105, up to the first await.
StartPass(e, msgs, force, origin, then, new, incoming) ==
    IF ~CanSync(e, force) THEN e
    ELSE LET p  == [NewPass(origin, FreshK(e, origin), force, msgs, then,
                            e.ref, new, incoming)
                       EXCEPT !.busy = \E q \in e.passes : q.origin # "mount"]
             e1 == [e EXCEPT !.syncing = TRUE,
                             !.passes = { [q EXCEPT !.superseded =
                                               @ \/ (force /\ q.origin # "mount")] : q \in @ }]
         IN  IF e.ref = NoConv
               THEN IF Unauthenticated
                      THEN Finish(e1, p)
                      ELSE Put(e1, [p EXCEPT !.pc = "ensure"])
               ELSE AfterConv(e1, [p EXCEPT !.convId = e.ref])

\* The conversation-switch effect (lines 162-187), up to its first await.
SwitchEffect(e, msgs) ==
    IF e.cid = NoConv \/ e.cid # e.ref
      THEN IF e.ref # NoConv /\ Len(msgs) > 0 /\ Len(Unsynced(msgs, e.synced)) > 0
             THEN LET inc == IF e.cid = e.h.loadedConv THEN e.h.loadedIds ELSE {}
                  IN  IF Unauthenticated
                        THEN Adopt(e, e.cid)
                        ELSE StartPass(e, msgs, TRUE, "switch", Waiter(e.cid), e.cid, inc)
             ELSE Adopt(e, e.cid)
      ELSE e

\* The debounce effect (lines 189-205): is a timer pending after it ran?
DebounceArmed(e, msgs) == Len(Unsynced(msgs, e.synced)) > 0

\* An effect that starts without clearing anything.
KeepTimeout(n, live) == n

\* Line 190, clearTimeout(syncTimeoutRef.current): of n pending timers the one
\* of the ref is cancelled, if it is pending (live).
ClearTimeout(n, live) == IF live THEN n - 1 ELSE n

\* The debounce effect (lines 189-205): the number of timers pending after it
\* ran with n timers pending before.
DebounceTimers(e, msgs, n, live) ==
    ClearTimeout(n, live) + (IF DebounceArmed(e, msgs) THEN 1 ELSE 0)

\* ----- the remote store ------------------------------------------------------
RECURSIVE SortById(_)
SortById(S) ==
    IF S = {} THEN << >>
    ELSE LET lo == CHOOSE r \in S : \A q \in S : r.id <= q.id
         IN  <<lo>> \o SortById(S \ {lo})

\* home.tsx lines 66-83: select * where conversation_id = c order by created_at,
\* mapped to {id, content, sender, timestamp}.  Ids are generated in creation
\* order, so created_at order is id order.  isBoilerplate and response_id are
\* not part of the mapped message.
FetchMessages(c) ==
    LET sorted == SortById({ r \in rows : r.conv = c })
    IN  [i \in 1..Len(sorted) |-> Message(sorted[i].id, sorted[i].role, FALSE, NoToken)]

\* SidebarNavigation fetchConversations: the user's conversations that have at
\* least one message (inner join).
ListedConversations ==
    { c \in 1..Len(conversations) :
        conversations[c] = UserRowId /\ \E r \in rows : r.conv = c }

\* No loadedMessages prop (null).
NoLoaded == [has |-> FALSE, list |-> << >>]

\* ChatInterface after its mount effects, home.tsx with no conversation picked
\* (home.tsx lines 21-25): messagesLoaded was set by the restore effect.
Mounted == [mounted |-> TRUE, messagesLoaded |-> TRUE,
            selectedConversationId |-> NoConv, loadedMessages |-> NoLoaded]

\* SidebarNavigation: no deleteConversation call is in flight.
NoDelete == [pc |-> "idle", conv |-> NoConv, failed |-> "none"]

\* upsert(toInsert, {onConflict: "id"}) of the pass p
Upsert(rws, p) ==
    { r \in rws : r.id \notin IdsOf(p.unsynced) } \cup
    { [id |-> p.unsynced[i].id, conv |-> p.convId,
       role |-> p.unsynced[i].sender, owner |-> UserRowId] : i \in 1..Len(p.unsynced) }

\* ----- the Chat Orchestrator ----------------------------------------------
NoReq == [active |-> FALSE, user |-> 0, prev |-> NoToken, expect |-> NoToken,
          list |-> << >>, text |-> << >>, history |-> << >>]

\* The window taken from the start of the list.
MessageHistoryFromStart(list) ==
    [i \in 1..(IF Len(list) < HistoryWindow THEN Len(list) ELSE HistoryWindow) |->
        [content |-> list[i].content, sender |-> list[i].sender]]

\* ChatInterface.tsx lines 316-321: messages.map(({content, sender}) => ...)
\* .slice(-20)
MessageHistory(list) ==
    LET simplified == [i \in 1..Len(list) |->
                          [content |-> list[i].content, sender |-> list[i].sender]]
    IN  IF Len(simplified) <= HistoryWindow THEN simplified
        ELSE SubSeq(simplified, Len(simplified) - HistoryWindow + 1, Len(simplified))

\* The token looked up among the user's messages instead of the replies.
PreviousResponseIdOfUser(list) ==
    LET us == SelectSeq(list, LAMBDA m : m.sender = "user" /\ ~m.isBoilerplate)
    IN  IF Len(us) = 0 THEN NoToken ELSE us[Len(us)].response_id

\* ChatInterface.tsx lines 324-327: response_id of the last non-boilerplate
\* assistant message of the list, or none.
PreviousResponseId(list) ==
    LET ai == SelectSeq(list, LAMBDA m : m.sender = "ai" /\ ~m.isBoilerplate)
    IN  IF Len(ai) = 0 THEN NoToken ELSE ai[Len(ai)].response_id

\* JSON.stringify / JSON.parse of the message list (lines 226-231, 252-255):
\* every field of a message survives; timestamps are rebuilt from their text.
Snapshot(list) == [has |-> TRUE, list |-> list]

\* The commit after the message list changed: switch effect, debounce effect,
\* save effect, in this order.
Effects(e, msgs) ==
    LET e1 == SwitchEffect(e, msgs)
    IN  /\ SetEng(e1)
        /\ InFlight(e1) <= MaxProc
        /\ syncTimeoutRef' = DebounceArmed(e1, msgs)
        /\ timers' = DebounceTimers(e1, msgs, timers, syncTimeoutRef)
        /\ messages' = msgs

\* The commit when localStorage.setItem succeeds (save effect, lines 249-260).
Commit(e, msgs) ==
    /\ Effects(e, msgs)
    /\ lsMessages' = IF auth THEN Snapshot(msgs) ELSE lsMessages

\* The commit when localStorage.setItem throws: the save effect catches and
\* logs (lines 251-258), the snapshot stays as it was.
CommitStorageFull(e, msgs) ==
    /\ Effects(e, msgs)
    /\ lsMessages' = lsMessages

\* The mount effect (lines 156-160): ensureConversationExists() is called when
\* there is a user and no cached id; it returns at line 40 without a user.
MountPass == [NewPass("mount", 0, FALSE, << >>, NoWaiter, NoConv, NoConv, {})
                 EXCEPT !.pc = "ensure"]

MountEffect == IF ~Unauthenticated THEN { MountPass } ELSE {}

\* The remote store at the start: the user has one earlier conversation (id 1)
\* holding a user message (id 1) and its reply (id 2).
InitConversations == << UserRowId >>

InitRows == { [id |-> 1, conv |-> 1, role |-> "user", owner |-> UserRowId],
              [id |-> 2, conv |-> 1, role |-> "ai", owner |-> UserRowId] }

Init ==
    /\ auth \in BOOLEAN
    /\ messages = getDefaultMessages(3)
    /\ conversationId = NoConv
    /\ isLoading = FALSE
    /\ isLoadingConversation = FALSE
    /\ req = NoReq
    /\ lsMessages = IF auth THEN Snapshot(messages) ELSE [has |-> FALSE, list |-> << >>]
    /\ currentConversationIdRef = NoConv
    /\ syncedMessageIdsRef = {}
    /\ isSyncingRef = FALSE
    /\ isInitializedRef = FALSE
    /\ syncTimeoutRef = FALSE
    /\ timers = 0
    /\ passes = MountEffect
    /\ iifes = {}
    /\ conversations = InitConversations
    /\ rows = InitRows
    /\ nextId = 4
    /\ nEvents = 0
    /\ nFails = 0
    /\ sidebar = [list |-> ListedConversations, was |-> ListedConversations, del |-> NoDelete]
    /\ loadState = Mounted
    /\ hist = [issued |-> NoIssue, fin |-> NoFin, done |-> NoDone, seen |-> {}, pend |-> {},
               loadedConv |-> NoConv, loadedIds |-> {}, lastRid |-> NoToken,
               boilerIds |-> {3}, restored |-> FALSE, settled |-> NoSettle,
               opened |-> FALSE, inflight |-> 0,
               leaving |-> NoLeaving, out |-> NoOut, kept |-> {}, late |-> {},
               snapHad |-> FALSE, snapRead |-> FALSE]

\* ----- Sync Engine: continuations of the operations in flight ---------------
OrchestratorUnchanged ==
    UNCHANGED <<auth, messages, isLoading, isLoadingConversation, req, lsMessages, nextId,
                sidebar, loadState>>

\* An outside event is counted.  Once the session has ended home.tsx shows
\* the login page (line 45) and the chat takes no event.
Event ==
    /\ nEvents < MaxEvents
    /\ ~hist.out.some
    /\ nEvents' = nEvents + 1

\* A remote store operation answers, with data or with an error.
Answer(ok) ==
    /\ UNCHANGED nEvents
    /\ IF ok THEN UNCHANGED nFails
             ELSE nFails < MaxFails /\ nFails' = nFails + 1

\* ensureConversationExists lines 46-67: the users lookup and the insert into
\* conversations answered.  The row is inserted with the user id found (none
\* when found is FALSE).  On success the new id is cached and reported
\* (setConversationId); a caller inside syncMessages goes on with line 91.
EnsureDone ==
    \E p \in passes, found \in BOOLEAN, ok \in BOOLEAN :
        /\ p.pc = "ensure"
        /\ Answer(found /\ ok)
        /\ LET new  == Len(conversations) + 1
               gone == Drop(Eng, p)
               e1   == SwitchEffect([gone EXCEPT !.ref = new, !.cid = new], messages)
               p1   == [p EXCEPT !.allok = found /\ ok,
                                 !.fail = IF ok THEN @ ELSE "ensure"]
           IN  /\ conversations' =
                      IF ok THEN Append(conversations, IF found THEN UserRowId ELSE NoUser)
                            ELSE conversations
               /\ SetEng(CASE ok /\ p.origin = "mount"  -> e1
                           [] ok /\ p.origin # "mount"  -> AfterConv(e1, [p1 EXCEPT !.convId = new])
                           [] ~ok /\ p.origin = "mount" -> gone
                           [] OTHER -> Finish(Eng, p1))
        /\ UNCHANGED <<syncTimeoutRef, timers, rows>>
        /\ OrchestratorUnchanged

\* syncMessages lines 94-95: loadSyncedMessages(convId) answered.
LoadDone ==
    \E p \in passes, ok \in BOOLEAN :
        /\ p.pc = "load"
        /\ Answer(ok)
        /\ SetEng(AfterInit(LoadSynced(Eng, p.convId, ok, rows),
                            [p EXCEPT !.allok = @ /\ ok,
                                      !.fail = IF ok THEN @ ELSE "load"]))
        /\ UNCHANGED <<syncTimeoutRef, timers, conversations, rows>>
        /\ OrchestratorUnchanged

\* The upsert request of pass p was sent (line 127).
Issue(e, p, ok) ==
    [e EXCEPT !.h.issued =
        [some |-> TRUE, ids |-> IdsOf(p.unsynced), conv |-> p.convId,
         origin |-> p.origin, old |-> p.old, new |-> p.new,
         incoming |-> p.incoming, loaded |-> p.loaded,
         skipped |-> IdsOf(p.msgs) \ NonBoilerIds(p.msgs),
         pending |-> p.pending, dup |-> p.dup, dup0 |-> p.dup0,
         landed |-> ok, superseded |-> p.superseded, retry |-> p.retry,
         moved |-> IF ok THEN { r.id : r \in { q \in rows : /\ q.id \in IdsOf(p.unsynced)
                                                            /\ q.conv # p.convId } }
                         ELSE {}]]

\* A successful upsert that leaves the synced-id set as it was.
MarkSyncedNothing(e, p) == e

\* Lines 136-139: the written ids join the synced-id set.

MarkSynced(e, p) ==
    [e EXCEPT !.synced = @ \cup IdsOf(p.unsynced),
              !.h.seen = @ \cup { <<i, p.convId>> : i \in IdsOf(p.unsynced) }]

\* An upsert error after which the ids are marked all the same.
OnUpsertErrorMarks(e, p) == MarkSynced(e, p)

\* Lines 131-134: the upsert answered with an error; log and return.
OnUpsertError(e, p) == e

\* syncMessages lines 105-145: the users lookup answered and, when a row was
\* found and there is something to insert, the upsert answered.
WriteDone ==
    \E p \in passes, found \in BOOLEAN, ok \in BOOLEAN :
        /\ p.pc = "write"
        /\ found \/ ok
        /\ Len(p.unsynced) = 0 => ok
        /\ Answer(found /\ ok)
        /\ rows' = IF found /\ ok /\ Len(p.unsynced) > 0 THEN Upsert(rows, p) ELSE rows
        /\ SetEng(CASE ~found -> Finish(Eng, [p EXCEPT !.allok = FALSE, !.fail = "user"])
                    [] found /\ Len(p.unsynced) = 0 -> Finish(Eng, p)
                    [] found /\ Len(p.unsynced) > 0 /\ ok ->
                            Finish(MarkSynced(Issue(Eng, p, TRUE), p), p)
                    [] OTHER -> Finish(OnUpsertError(Issue(Eng, p, FALSE), p),
                                       [p EXCEPT !.allok = FALSE, !.fail = "upsert"]))
        /\ UNCHANGED <<syncTimeoutRef, timers, conversations>>
        /\ OrchestratorUnchanged

\* Switch handler lines 182-183: its loadSyncedMessages(conversationId) answered.
SwitchLoadDone ==
    \E f \in iifes, ok \in BOOLEAN :
        /\ Answer(ok)
        /\ SetEng(LoadSynced([Eng EXCEPT !.iifes = @ \ {f}], f.conv, ok, rows))
        /\ UNCHANGED <<syncTimeoutRef, timers, conversations, rows>>
        /\ OrchestratorUnchanged

\* ----- Sync Engine: triggers ---------------------------------------------
\* The debounce timer fires (lines 198-200): syncMessages().
TimerFire ==
    /\ timers > 0
    /\ timers' = timers - 1
    /\ syncTimeoutRef' = (syncTimeoutRef /\ timers > 1)
    /\ LET e1 == StartPass(Eng, messages, FALSE, "debounce", NoWaiter, NoConv, {})
       IN  SetEng(e1) /\ InFlight(e1) <= MaxProc
    /\ UNCHANGED <<conversations, rows, nEvents, nFails>>
    /\ OrchestratorUnchanged

\* beforeunload, pagehide, visibilitychange to hidden (lines 207-234) and the
\* returned forceSyncMessages: syncMessages(true).
ForceFlush ==
    /\ Event
    /\ LET e1 == StartPass(Eng, messages, TRUE, "force", NoWaiter, NoConv, {})
       IN  SetEng(e1) /\ InFlight(e1) <= MaxProc
    /\ UNCHANGED <<syncTimeoutRef, timers, conversations, rows, nFails>>
    /\ OrchestratorUnchanged

\* ----- Chat Orchestrator: operations ----------------------------------------
\* Draft texts the user may have typed; a text is a sequence of characters.
Inputs == { << >>, <<" ">>, <<"H", "i">> }

RECURSIVE TrimLeft(_)
TrimLeft(t) == IF Len(t) > 0 /\ Head(t) = " " THEN TrimLeft(Tail(t)) ELSE t

RECURSIVE TrimRight(_)
TrimRight(t) ==
    IF Len(t) > 0 /\ t[Len(t)] = " " THEN TrimRight(SubSeq(t, 1, Len(t) - 1)) ELSE t

trim(t) == TrimRight(TrimLeft(t))

\* A guard that looks at the text only.
SendRejectedWhenBlank(text) == trim(text) = << >>

\* handleSendMessage line 298: inputMessage.trim() === "" || isLoading
SendRejected(text) == trim(text) = << >> \/ isLoading

\* handleSendMessage lines 297-334, up to the await of client.post; a rejected
\* attempt returns at line 298.
Send ==
    \E text \in Inputs :
        IF SendRejected(text)
          THEN UNCHANGED vars
          ELSE /\ Event
               /\ nextId' = nextId + 1
               /\ isLoading' = TRUE
               /\ req' = [active |-> TRUE, user |-> nextId,
                          prev |-> PreviousResponseId(messages),
                          expect |-> hist.lastRid, list |-> messages,
                          text |-> text, history |-> MessageHistory(messages)]
               /\ Commit([Eng EXCEPT !.h.inflight = @ + 1],
                         Append(messages, Message(nextId, "user", FALSE, NoToken)))
               /\ UNCHANGED <<auth, sidebar, loadState, isLoadingConversation, conversations, rows, nFails>>

\* What a settled completion call leaves behind in the observations.
Settled(e, rid, rejected) ==
    [e EXCEPT !.h.lastRid = rid,
              !.h.inflight = @ - 1,
              !.h.settled = [some |-> TRUE, rejected |-> rejected,
                             userThere |-> req.user \in IdsOf(messages)],
              !.h.late = IF req.user \in IdsOf(messages) THEN @ ELSE @ \cup {nextId}]

\* handleSendMessage lines 336-344 and 356-358: the endpoint answered
\* {response, response_id: r}; r = NoToken stands for an answer without one.
Resolve ==
    \E r \in {NoToken, nextId} :
        /\ isLoading
        /\ nextId' = nextId + 1
        /\ isLoading' = FALSE
        /\ req' = NoReq
        /\ Commit(Settled(Eng, r, FALSE), Append(messages, Message(nextId, "ai", FALSE, r)))
        /\ UNCHANGED <<auth, sidebar, loadState, isLoadingConversation, conversations, rows, nEvents, nFails>>

\* handleSendMessage lines 345-358: the call rejected; the apology is appended.
Reject ==
    /\ isLoading
    /\ nextId' = nextId + 1
    /\ isLoading' = FALSE
    /\ req' = NoReq
    /\ Commit(Settled(Eng, NoToken, TRUE),
              Append(messages, Message(nextId, "ai", FALSE, NoToken)))
    /\ UNCHANGED <<auth, sidebar, loadState, isLoadingConversation, conversations, rows, nEvents, nFails>>

\* home.tsx loadPastConversation (lines 49-97) for a conversation picked in the
\* history tab, calling ChatInterface loadConversation (lines 172-195):
\* syncMessages() for the list on screen, then the new id and list are set.
LoadPast ==
    \E c \in ListedConversations :
        /\ auth
        /\ loadState.mounted
        /\ Event
        /\ LET fetched == FetchMessages(c)
               e1 == StartPass(Eng, messages, TRUE, "load", NoWaiter, NoConv, {})
               e2 == [e1 EXCEPT !.cid = c, !.h.loadedConv = c, !.h.opened = TRUE,
                                !.h.loadedIds = IdsOf(fetched),
                                !.h.lastRid = NoToken]
           IN  /\ Commit(e2, fetched)
               /\ loadState' = [mounted |-> TRUE, messagesLoaded |-> TRUE,
                                selectedConversationId |-> c,
                                loadedMessages |-> [has |-> TRUE, list |-> fetched]]
        /\ isLoadingConversation' = FALSE
        /\ UNCHANGED <<auth, sidebar, isLoading, req, conversations, rows, nextId, nFails>>

\* The page is reloaded: every piece of in-memory state starts afresh, the
\* requests in flight are abandoned, and the mount effects run (ChatInterface
\* lines 214-260, useConversationSync lines 156-205).  The list is restored
\* from the snapshot when there is a user and a snapshot.
Reload ==
    /\ Event
    /\ LET restore == auth /\ lsMessages.has
           msgs == IF restore THEN lsMessages.list ELSE getDefaultMessages(nextId)
       IN  /\ nextId' = IF restore THEN nextId ELSE nextId + 1
           /\ messages' = msgs
           /\ lsMessages' = IF auth THEN Snapshot(msgs) ELSE lsMessages
           /\ syncTimeoutRef' = DebounceArmed([synced |-> {}], msgs)
           /\ timers' = DebounceTimers([synced |-> {}], msgs, 0, FALSE)
           /\ hist' = [hist EXCEPT !.issued = NoIssue, !.fin = NoFin,
                                   !.settled = NoSettle, !.restored = restore,
                                   !.opened = FALSE, !.inflight = 0,
                                   !.leaving = NoLeaving, !.late = {},
                                   !.snapHad = auth /\ lsMessages.has,
                                   !.snapRead = auth,
                                   !.kept = IF restore
                                              THEN { r \in rows : r.id \in IdsOf(msgs) }
                                              ELSE {},
                                   !.done = NoDone, !.pend = {},
                                   !.loadedConv = NoConv, !.loadedIds = {},
                                   !.lastRid = IF restore THEN @ ELSE NoToken,
                                   !.boilerIds = IF restore THEN @ ELSE @ \cup {nextId}]
    /\ conversationId' = NoConv
    /\ isLoading' = FALSE
    /\ req' = NoReq
    /\ currentConversationIdRef' = NoConv
    /\ syncedMessageIdsRef' = {}
    /\ isSyncingRef' = FALSE
    /\ isInitializedRef' = FALSE
    /\ passes' = MountEffect
    /\ iifes' = {}
    /\ isLoadingConversation' = FALSE
    /\ loadState' = Mounted
    /\ UNCHANGED <<auth, sidebar, conversations, rows, nFails>>

Next ==
    \/ EnsureDone
    \/ LoadDone
    \/ WriteDone
    \/ SwitchLoadDone
    \/ TimerFire
    \/ ForceFlush
    \/ Send
    \/ Resolve
    \/ Reject
    \/ LoadPast
    \/ Reload

Spec == Init /\ [][Next]_vars

\* ----- the orchestrator alone, on lists of any length ---------------------
\* A list as n - 1 exchanges without a user leave it: the welcome message, then
\* user messages and answers in turn.
LongList(n) ==
    [i \in 1..n |-> IF i = 1 THEN Message(1, "ai", TRUE, NoToken)
                    ELSE Message(i, IF i % 2 = 0 THEN "user" ELSE "ai", FALSE, NoToken)]

InitWindow ==
    /\ auth = FALSE
    /\ messages \in { LongList(n) : n \in 1..MaxList }
    /\ conversationId = NoConv
    /\ isLoading = FALSE
    /\ isLoadingConversation = FALSE
    /\ req = NoReq
    /\ lsMessages = [has |-> FALSE, list |-> << >>]
    /\ currentConversationIdRef = NoConv
    /\ syncedMessageIdsRef = {}
    /\ isSyncingRef = FALSE
    /\ isInitializedRef = FALSE
    /\ syncTimeoutRef = DebounceArmed([synced |-> {}], messages)
    /\ timers = DebounceTimers([synced |-> {}], messages, 0, FALSE)
    /\ passes = {}
    /\ iifes = {}
    /\ conversations = InitConversations
    /\ rows = {}
    /\ nextId = Len(messages) + 1
    /\ nEvents = 0
    /\ nFails = 0
    /\ sidebar = [list |-> ListedConversations, was |-> ListedConversations, del |-> NoDelete]
    /\ loadState = Mounted
    /\ hist = [issued |-> NoIssue, fin |-> NoFin, done |-> NoDone, seen |-> {}, pend |-> {},
               loadedConv |-> NoConv, loadedIds |-> {}, lastRid |-> NoToken,
               boilerIds |-> {1}, restored |-> FALSE, settled |-> NoSettle,
               opened |-> FALSE, inflight |-> 0,
               leaving |-> NoLeaving, out |-> NoOut, kept |-> {}, late |-> {},
               snapHad |-> FALSE, snapRead |-> FALSE]

NextWindow ==
    \/ Send
    \/ Resolve
    \/ Reject
    \/ TimerFire

SpecWindow == InitWindow /\ [][NextWindow]_vars

\* ----- local storage out of quota -----------------------------------------
\* loadConversation (lines 172-195) when localStorage.setItem throws at line
\* 185: the flag was set at line 174, syncMessages() was called and the new id
\* and list were set (lines 177-182); the exception leaves the function before
\* line 192, setIsLoadingConversation(false), and reaches loadPastConversation
\* (home.tsx 87-95), whose catch logs it.
LoadPastStorageFull ==
    \E c \in ListedConversations :
        /\ auth
        /\ Event
        /\ nFails < MaxFails
        /\ nFails' = nFails + 1
        /\ LET fetched == FetchMessages(c)
               e1 == StartPass(Eng, messages, TRUE, "load", NoWaiter, NoConv, {})
               e2 == [e1 EXCEPT !.cid = c, !.h.loadedConv = c, !.h.opened = TRUE,
                                !.h.loadedIds = IdsOf(fetched),
                                !.h.lastRid = NoToken]
           IN  CommitStorageFull(e2, fetched)
        /\ isLoadingConversation' = TRUE
        /\ UNCHANGED <<auth, sidebar, loadState, isLoading, req, conversations, rows, nextId>>

NextStorage ==
    \/ Next
    \/ LoadPastStorageFull

SpecStorage == Init /\ [][NextStorage]_vars

\* ----- the history: deleteConversation (SidebarNavigation) ------------------
\* A remote store with MaxConvs conversations, each owned by the user or by
\* nobody, each with one message or none; the list shown was fetched for the
\* user (it may still be shown when the user is gone, until it is refreshed).
InitDelete ==
    /\ auth \in BOOLEAN
    /\ messages = getDefaultMessages(MaxConvs + 1)
    /\ conversationId = NoConv
    /\ isLoading = FALSE
    /\ isLoadingConversation = FALSE
    /\ req = NoReq
    /\ lsMessages = [has |-> FALSE, list |-> << >>]
    /\ currentConversationIdRef = NoConv
    /\ syncedMessageIdsRef = {}
    /\ isSyncingRef = FALSE
    /\ isInitializedRef = FALSE
    /\ syncTimeoutRef = FALSE
    /\ timers = 0
    /\ passes = {}
    /\ iifes = {}
    /\ conversations \in [1..MaxConvs -> {NoUser, UserRowId}]
    /\ rows \in SUBSET { [id |-> c, conv |-> c, role |-> "user", owner |-> UserRowId] :
                            c \in 1..MaxConvs }
    /\ nextId = MaxConvs + 2
    /\ nEvents = 0
    /\ nFails = 0
    /\ sidebar = [list |-> ListedConversations, was |-> ListedConversations, del |-> NoDelete]
    /\ loadState = Mounted
    /\ hist = [issued |-> NoIssue, fin |-> NoFin, done |-> NoDone, seen |-> {}, pend |-> {},
               loadedConv |-> NoConv, loadedIds |-> {}, lastRid |-> NoToken,
               boilerIds |-> {MaxConvs + 1}, restored |-> FALSE, settled |-> NoSettle,
               opened |-> FALSE, inflight |-> 0,
               leaving |-> NoLeaving, out |-> NoOut, kept |-> {}, late |-> {},
               snapHad |-> FALSE, snapRead |-> FALSE]

\* What deleteConversation does not touch.
ChatUnchanged ==
    UNCHANGED <<auth, messages, conversationId, isLoading, isLoadingConversation, req,
                lsMessages, currentConversationIdRef, syncedMessageIdsRef, isSyncingRef,
                isInitializedRef, syncTimeoutRef, timers, passes, iifes, nextId,
                loadState, hist>>

\* deleteConversation lines 43-53: the delete button of conversation c of the
\* list; return without a user, else send the users lookup.
DeleteStart ==
    \E c \in sidebar.list :
        /\ sidebar.del.pc = "idle"
        /\ Event
        /\ sidebar' = IF Unauthenticated THEN sidebar
                      ELSE [sidebar EXCEPT !.del = [pc |-> "user", conv |-> c,
                                                    failed |-> "none"]]
        /\ UNCHANGED <<conversations, rows, nFails>>
        /\ ChatUnchanged

\* Lines 49-58: the users lookup answered.
DeleteUserDone ==
    \E ok \in BOOLEAN :
        /\ sidebar.del.pc = "user"
        /\ Answer(ok)
        /\ sidebar' = [sidebar EXCEPT !.del.pc = IF ok THEN "messages" ELSE "idle",
                                      !.del.failed = IF ok THEN "none" ELSE "user"]
        /\ UNCHANGED <<conversations, rows>>
        /\ ChatUnchanged

\* A deletion that goes on whatever the answer.
GoOnAnyway(ok) == "conversation"

\* Lines 66-69: after the delete of the messages, return on an error.
AfterMessagesDelete(ok) == IF ok THEN "conversation" ELSE "idle"

\* Lines 60-69: the delete of the conversation's messages answered.
DeleteMessagesDone ==
    \E ok \in BOOLEAN :
        /\ sidebar.del.pc = "messages"
        /\ Answer(ok)
        /\ rows' = IF ok THEN { r \in rows : r.conv # sidebar.del.conv } ELSE rows
        /\ sidebar' = [sidebar EXCEPT !.del.pc = AfterMessagesDelete(ok),
                                      !.del.failed = IF ok THEN "none" ELSE "messages"]
        /\ UNCHANGED conversations
        /\ ChatUnchanged

\* Lines 71-86: the delete of the conversation row (id = c and user_id = the
\* user's row id) answered; without an error the conversation leaves the list.
DeleteConversationDone ==
    \E ok \in BOOLEAN :
        /\ sidebar.del.pc = "conversation"
        /\ Answer(ok)
        /\ conversations' =
               IF ok /\ conversations[sidebar.del.conv] = UserRowId
                 THEN [conversations EXCEPT ![sidebar.del.conv] = Deleted]
                 ELSE conversations
        /\ sidebar' = [sidebar EXCEPT
                          !.list = IF ok THEN @ \ {sidebar.del.conv} ELSE @,
                          !.del.pc = "idle",
                          !.del.failed = IF ok THEN "none" ELSE "conversation"]
        /\ UNCHANGED rows
        /\ ChatUnchanged

NextDelete ==
    \/ DeleteStart
    \/ DeleteUserDone
    \/ DeleteMessagesDone
    \/ DeleteConversationDone

SpecDelete == InitDelete /\ [][NextDelete]_vars

\* ----- sign-out (AuthContext) ----------------------------------------------
\* handleSignOut lines 129-138: the beforeSignOut event is dispatched and the
\* handler starts its wait of 1000 ms.  This revision of useConversationSync
\* registers no listener for the event (lines 207-234 listen to beforeunload,
\* pagehide and visibilitychange), so that the dispatch starts nothing.
SignOutStart ==
    /\ auth
    /\ ~hist.leaving.on
    /\ Event
    /\ SetEng([Eng EXCEPT !.h.leaving =
                   [on |-> TRUE,
                    ids |-> IdsOf(Unsynced(messages, syncedMessageIdsRef))]])
    /\ UNCHANGED <<syncTimeoutRef, timers, conversations, rows, nFails>>
    /\ OrchestratorUnchanged

\* handleSignOut lines 138-146: the wait is over; clearUserData removes the
\* local snapshot, signOut ends the session and the user is set to null, so
\* that home.tsx unmounts the chat (the debounce effect's cleanup clears its
\* timer).  A debounce timer armed before the dispatch has expired by then.
\* The sync operations in flight are left to themselves.
SignOutFinish ==
    /\ hist.leaving.on
    /\ ~hist.out.some
    /\ ~syncTimeoutRef
    /\ auth' = FALSE
    /\ lsMessages' = [has |-> FALSE, list |-> << >>]
    /\ isLoading' = FALSE
    /\ req' = NoReq
    /\ SetEng([Eng EXCEPT !.h.inflight = 0,
                          !.h.out = [some |-> TRUE,
                                     lost |-> hist.leaving.ids \ { r.id : r \in rows }]])
    /\ UNCHANGED <<sidebar, loadState, messages, isLoadingConversation, syncTimeoutRef, timers, conversations,
                   rows, nextId, nEvents, nFails>>

NextSignOut ==
    \/ Next
    \/ SignOutStart
    \/ SignOutFinish

SpecSignOut == Init /\ [][NextSignOut]_vars

(***************************************************************************)
(* ChatInterface from its first render: the restore effect (lines 214-246) *)
(* and the save effect (lines 249-260), with the user identity and the     *)
(* props of home.tsx becoming available in any order.                      *)
(***************************************************************************)

\* Longest per-user snapshot left in localStorage by an earlier session
\* (the shortest holds the welcome message and one user message).
MaxSaved == 5

\* Restore effect, ChatInterface.tsx lines 214-246, on the values of one render:
\* st = [messages, messagesLoaded, conversationId, read], ls = the stored snapshot.
RestoreEffect(st, user, ls, sel, loaded) ==
    IF user /\ ~st.messagesLoaded /\ sel = NoConv /\ ~loaded.has
      THEN [st EXCEPT !.messages = IF ls.has THEN ls.list ELSE @,
                      !.messagesLoaded = TRUE, !.read = TRUE]
      ELSE IF sel # NoConv /\ loaded.has
             THEN [st EXCEPT !.messages = loaded.list, !.conversationId = sel,
                             !.messagesLoaded = TRUE]
             ELSE IF sel = NoConv /\ ~loaded.has /\ ~st.messagesLoaded
                    THEN [st EXCEPT !.messagesLoaded = TRUE]
                    ELSE st

\* Save effect, lines 249-260, on the values of the same render.
SaveEffect(st, user, ls) ==
    IF user /\ st.messagesLoaded THEN Snapshot(st.messages) ELSE ls

\* One render: the restore effect reads the store, then the save effect writes
\* this render's messages; the state set by the restore effect shows in the next.
RenderPass(r, user, sel, loaded) ==
    [st |-> RestoreEffect(r.st, user, r.ls, sel, loaded),
     ls |-> SaveEffect(r.st, user, r.ls)]

\* Renders repeat until the effects change nothing.
RECURSIVE Settle(_, _, _, _)
Settle(r, user, sel, loaded) ==
    LET n == RenderPass(r, user, sel, loaded)
    IN  IF n = r THEN r ELSE Settle(n, user, sel, loaded)

Rendered ==
    [st |-> [messages |-> messages, messagesLoaded |-> loadState.messagesLoaded,
             conversationId |-> conversationId, read |-> hist.snapRead],
     ls |-> lsMessages]

\* ChatInterface at its first render, before any effect has run.
InitRestore ==
    /\ auth \in BOOLEAN
    /\ conversations = InitConversations
    /\ rows = InitRows
    /\ loadState \in { [mounted |-> FALSE, messagesLoaded |-> FALSE,
                         selectedConversationId |-> NoConv, loadedMessages |-> NoLoaded] }
                       \cup { [mounted |-> FALSE, messagesLoaded |-> FALSE,
                               selectedConversationId |-> c,
                               loadedMessages |-> [has |-> TRUE, list |-> FetchMessages(c)]]
                             : c \in ListedConversations }
    /\ messages = getDefaultMessages(MaxSaved + 1)
    /\ conversationId = loadState.selectedConversationId
    /\ isLoading = FALSE
    /\ isLoadingConversation = FALSE
    /\ req = NoReq
    /\ lsMessages \in { [has |-> FALSE, list |-> << >>] }
                        \cup { Snapshot(LongList(n)) : n \in 2..MaxSaved }
    /\ currentConversationIdRef = conversationId
    /\ syncedMessageIdsRef = {}
    /\ isSyncingRef = FALSE
    /\ isInitializedRef = FALSE
    /\ syncTimeoutRef = FALSE
    /\ timers = 0
    /\ passes = {}
    /\ iifes = {}
    /\ nextId = MaxSaved + 2
    /\ nEvents = 0
    /\ nFails = 0
    /\ sidebar = [list |-> ListedConversations, was |-> ListedConversations, del |-> NoDelete]
    /\ hist = [issued |-> NoIssue, fin |-> NoFin, done |-> NoDone, seen |-> {}, pend |-> {},
               loadedConv |-> NoConv, loadedIds |-> {}, lastRid |-> NoToken,
               boilerIds |-> {MaxSaved + 1}, restored |-> FALSE, settled |-> NoSettle,
               opened |-> FALSE, inflight |-> 0,
               leaving |-> NoLeaving, out |-> NoOut, kept |-> {}, late |-> {},
               snapHad |-> lsMessages.has, snapRead |-> FALSE]

\* The effects of a render with the given user identity, run to rest, together
\* with the effects of useConversationSync on the same commits.
RunEffects(user, started) ==
    LET r == Settle(Rendered, user, loadState.selectedConversationId,
                    loadState.loadedMessages)
        e == [Eng EXCEPT !.passes = @ \cup started, !.cid = r.st.conversationId,
                         !.h.snapRead = r.st.read]
    IN  /\ Effects(e, r.st.messages)
        /\ lsMessages' = r.ls
        /\ loadState' = [loadState EXCEPT !.mounted = TRUE,
                                          !.messagesLoaded = r.st.messagesLoaded]

\* First commit of ChatInterface: every effect runs once.
MountEffects ==
    /\ ~loadState.mounted
    /\ RunEffects(auth, MountEffect)
    /\ UNCHANGED <<auth, sidebar, isLoading, isLoadingConversation, req, conversations, rows,
                   nextId, nEvents, nFails>>

\* useAuth() hands a userUUID to the mounted ChatInterface (AuthContext SIGNED_IN).
UserArrives ==
    /\ loadState.mounted
    /\ ~auth
    /\ auth' = TRUE
    /\ RunEffects(TRUE, { MountPass })
    /\ UNCHANGED <<sidebar, isLoading, isLoadingConversation, req, conversations, rows,
                   nextId, nEvents, nFails>>

\* Once mounted, the chat is used as usual while the identity may still arrive.
Chatting ==
    /\ loadState.mounted
    /\ (Send \/ Resolve \/ Reject \/ TimerFire)

NextRestore ==
    \/ MountEffects
    \/ UserArrives
    \/ LoadPast
    \/ Chatting

SpecRestore == InitRestore /\ [][NextRestore]_vars

\* ----- properties -----------------------------------------------------------

\* C1: on a conversation switch the switch-time flush writes under the previous
\* conversation id only: every upsert the flush sends carries the id that was
\* cached when the switch began, never the id being adopted, and none of the
\* written ids belongs to the conversation being entered.
C1_SwitchFlushWritesOnlyWhatIsLeft ==
    (hist.issued.some /\ hist.issued.origin = "switch") =>
        /\ hist.issued.conv = hist.issued.old
        /\ hist.issued.conv # hist.issued.new
        /\ hist.issued.ids \cap hist.issued.incoming = {}

\* C2: opening a past conversation replaces the message list by exactly the
\* fetched messages, in order, and from then on no upsert is sent for any of
\* the fetched ids, whatever triggers the pass.
C2_LoadedMessagesAreNotRewritten ==
    /\ hist.opened => messages = FetchMessages(conversationId)
    /\ hist.issued.some => hist.issued.ids \cap hist.issued.loaded = {}

\* C3: when a forced syncMessages pass of a signed-in user ends with every
\* remote operation it made having succeeded, every non-boilerplate message id
\* of the list it was given is in the synced-id set.
C3_ForcedPassCoversItsList ==
    (hist.fin.some /\ hist.fin.force /\ hist.fin.ok) => hist.fin.covered

\* C4 as stated: a pass given the same message list as the pass that ended
\* before it sends no upsert.
C4_SecondPassSendsNothing ==
    hist.issued.some => ~hist.issued.dup0

\* C4, amended: a pass given the same message list as the pass that ended
\* before it sends no upsert, provided that earlier pass ended with all its
\* remote operations successful and the synced-id set was neither cleared nor
\* reloaded since that pass computed its unsynced subset.
C4_SecondPassAfterCleanSuccessSendsNothing ==
    /\ hist.issued.some => ~hist.issued.dup
    /\ \A p \in passes : (p.dup /\ p.pc = "write") => Len(p.unsynced) = 0

\* C4 witness: a pass ended that was given the list of a successful pass before
\* it, a list holding a message written in this session.
C4_Witness ==
    /\ hist.fin.some /\ hist.fin.dup
    /\ \E i \in NonBoilerIds(hist.done.msgs) :
           i \in { r.id : r \in rows } \ { r.id : r \in InitRows }

\* C5: the conversation_messages table never holds a row whose id is that of a
\* boilerplate (welcome) message, and no upsert ever carries such an id.
C5_BoilerplateNeverStored ==
    /\ { r.id : r \in rows } \cap hist.boilerIds = {}
    /\ hist.issued.some => hist.issued.ids \cap hist.boilerIds = {}

\* C5 witness: after the list was restored from the local snapshot, an upsert
\* was sent by a pass whose list held the welcome message, which it left out.
C5_Witness ==
    /\ hist.restored
    /\ hist.issued.some
    /\ hist.issued.skipped # {}
    /\ hist.issued.skipped \subseteq hist.boilerIds

\* C6: without a signed-in user a sent message is appended to the list, the
\* remote tables stay as they were, no Sync Engine operation is in flight and
\* no conversation id is obtained.
C6_UnauthenticatedStaysLocal ==
    ~auth =>
        /\ conversations = InitConversations
        /\ rows = InitRows
        /\ passes = {} /\ iifes = {} /\ ~isSyncingRef
        /\ currentConversationIdRef = NoConv /\ conversationId = NoConv
        /\ req.active =>
               messages = Append(req.list, Message(req.user, "user", FALSE, NoToken))

\* C6 witness: without a user, a message was sent and answered and the
\* debounce timer that followed has fired.
C6_Witness ==
    /\ ~auth
    /\ Len(messages) >= 3
    /\ messages[2].sender = "user"
    /\ ~syncTimeoutRef /\ ~isLoading

\* C7: the reply to a send carries the token the endpoint returned and is the
\* most recent assistant message; every request carries the token of the most
\* recent non-boilerplate assistant message of the list at the time of the
\* send, which is the token returned for the previous send of the conversation,
\* or none.
C7_RequestCarriesLatestToken ==
    LET Token(list) ==
            LET A == { i \in 1..Len(list) :
                         list[i].sender = "ai" /\ ~list[i].isBoilerplate }
            IN  IF A = {} THEN NoToken
                ELSE list[CHOOSE i \in A : \A j \in A : j <= i].response_id
    IN  /\ hist.settled.some =>
               messages[Len(messages)].response_id = hist.lastRid
        /\ Token(messages) = hist.lastRid
        /\ req.active => req.prev = Token(req.list) /\ req.prev = req.expect

\* C7 witness: a request is pending that carries a token.
C7_Witness ==
    req.active /\ req.prev # NoToken /\ req.prev = hist.lastRid

C9_SyncedIdsBelongToActiveConversation ==
    \A i \in syncedMessageIdsRef : <<i, currentConversationIdRef>> \in hist.seen

\* C10: no upsert carries a conversation id whose reload of the synced-id set,
\* started when the id was adopted, has not completed.
C10_NoWriteBeforeReload ==
    hist.issued.some => ~hist.issued.pending

\* C11: a conversation row is inserted only once the message list holds a
\* non-boilerplate message: as long as nothing was sent, loaded or restored,
\* so that the list is the welcome message alone, the conversations table is
\* as it was.
C11_NoConversationBeforeFirstMessage ==
    (nEvents = 0 /\ NonBoilerIds(messages) = {}) =>
        conversations = InitConversations

\* C12: a non-forced syncMessages call made while another call is in flight is
\* dropped before any remote operation: no non-forced call that went on to a
\* remote read or write started while another call was in flight.
C12_NonForcedCallDroppedWhileBusy ==
    \A p \in passes :
        (p.origin # "mount" /\ ~p.force) => ~p.busy

\* C13: once a forced call has started, no upsert of a call that was already
\* in flight at that moment takes effect.
C13_ForcedCallCancelsEarlierWrites ==
    (hist.issued.some /\ hist.issued.landed) => ~hist.issued.superseded

C15_OneRequestAtATime ==
    /\ hist.inflight = (IF isLoading THEN 1 ELSE 0)
    /\ req.active <=> isLoading
    /\ req.active => \E i \in 1..Len(req.text) : req.text[i] # " "

\* C15 witness: a second send was accepted after the answer to the first.
C15_Witness ==
    /\ req.active /\ hist.inflight = 1 /\ isLoading
    /\ hist.loadedConv = NoConv
    /\ Cardinality({ i \in 1..Len(req.list) : req.list[i].sender = "user" }) >= 1

\* C16: the message_history of a request is the last min(n, 20) messages of
\* the list of length n as it was before the user message was appended, in
\* order, each as {content, sender}; the message being sent is not in it.
C16_HistoryIsLastTwentyPriorMessages ==
    req.active =>
        LET n == Len(req.list)
            k == IF n < 20 THEN n ELSE 20
        IN  /\ Len(req.history) = k
            /\ \A i \in 1..k :
                   req.history[i] = [content |-> req.list[n - k + i].content,
                                     sender |-> req.list[n - k + i].sender]
            /\ \A i \in 1..k : req.history[i].content # req.user

\* C16 witness: a request was sent from a list of more than 20 messages.
C16_Witness ==
    req.active /\ Len(req.list) > 20 /\ Len(req.history) = 20

\* C17: once every asynchronous operation has settled after loadConversation(id,
\* msgs), the orchestrator's conversation id and the Sync Engine's cached
\* conversation id are both id, and the list starts with msgs: a conversation
\* created by an operation in flight never replaces id.
C17_LoadedConversationStaysActive ==
    (hist.loadedConv # NoConv /\ passes = {} /\ iifes = {}) =>
        /\ conversationId = hist.loadedConv
        /\ currentConversationIdRef = hist.loadedConv
        /\ hist.loadedIds \subseteq IdsOf(messages)

\* C18: for a signed-in user whose store operations all succeeded, once no sync
\* pass, no request and no debounce timer is pending, every non-boilerplate
\* message of the list is stored under the active conversation id: nothing is
\* left waiting for a further user action.  Stated for the conversation the
\* session started with (no past conversation loaded).
C18_QuiescentListIsStored ==
    (/\ auth /\ nFails = 0 /\ hist.loadedConv = NoConv
     /\ passes = {} /\ iifes = {} /\ ~syncTimeoutRef /\ ~isLoading) =>
        \A i \in 1..Len(messages) :
            ~isBoilerplateMessage(messages[i]) =>
                \E r \in rows : r.id = messages[i].id /\ r.conv = currentConversationIdRef

\* C19: the user data is cleared and the session ended only after the flush of
\* the messages that were unsynced at the pre-sign-out signal has completed:
\* at that moment each of these messages is in the remote store.
C19_SignOutAfterFlush ==
    hist.out.some => hist.out.lost = {}

\* C20: at most one debounce timer is pending, and it is the one the ref
\* holds; a change of the message list leaves the earlier timer cancelled and
\* a timer pending if and only if the changed list has a non-boilerplate
\* message outside the synced-id set; a debounced sync pass starts only when
\* the pending timer fires, never from a cancelled one.
C20_OneDebounceTimer ==
    /\ [](timers = (IF syncTimeoutRef THEN 1 ELSE 0))
    /\ [][messages' # messages =>
             (timers' = 1 <=>
                 \E i \in 1..Len(messages') :
                     /\ ~messages'[i].isBoilerplate
                     /\ messages'[i].id \notin syncedMessageIdsRef')]_vars
    /\ [][(\E p \in passes' : /\ p.origin = "debounce"
                              /\ \A q \in passes : ~(q.origin = "debounce" /\ q.k = p.k)) =>
             (timers = 1 /\ syncTimeoutRef /\ timers' = 0 /\ messages' = messages)]_vars

\* C20 witness: the answer arrived while the timer armed by the send was
\* pending; that timer was cancelled without firing and one timer is pending.
C20_Witness ==
    /\ auth /\ nFails = 0 /\ hist.loadedConv = NoConv /\ ~hist.restored
    /\ timers = 1 /\ syncTimeoutRef /\ ~isLoading
    /\ Len(messages) >= 3
    /\ rows = InitRows /\ syncedMessageIdsRef = {}
    /\ \A p \in passes : p.origin = "mount"

\* C21: the upserts of the sync passes in flight at the same time leave the
\* same rows (conversation id included) in conversation_messages whichever of
\* them the store applies first.
C21_ConcurrentUpsertsCommute ==
    \A p \in passes, q \in passes :
        (p.pc = "write" /\ q.pc = "write") =>
            Upsert(Upsert(rows, p), q) = Upsert(Upsert(rows, q), p)

\* C22: after a page reload that restored the list from the local snapshot, no
\* sync pass writes a message of the restored list that was in the remote
\* store at the reload: neither again nor under another conversation id.
C22_RestoredMessagesNotRewritten ==
    (hist.restored /\ hist.issued.some /\ hist.issued.landed) =>
        hist.issued.ids \cap { r.id : r \in hist.kept } = {}

\* C23: a local-storage failure is only logged: after loadConversation the
\* new list and conversation id are in place and the loading-conversation
\* flag is back to false.
C23_LoadingFlagReturnsToFalse ==
    ~isLoadingConversation

\* C24: every conversation row was inserted with the row id of the current
\* user as its owner, and the cached conversation id is never that of a
\* conversation whose owner is missing.
C24_ConversationOwnedByUser ==
    /\ \A c \in 1..Len(conversations) : conversations[c] = UserRowId
    /\ currentConversationIdRef # NoConv => conversations[currentConversationIdRef] = UserRowId

\* C25: deleteConversation(c) deletes the messages of c before the conversation
\* row; after a failed user lookup or message deletion the conversation row
\* is still there and still listed; a conversation leaves the list only once
\* its messages and its row are deleted; without a user nothing is deleted and
\* the list stays as it was.
C25_DeleteOrderAndFailures ==
    /\ \A c \in 1..Len(conversations) :
           conversations[c] = Deleted => ~\E r \in rows : r.conv = c
    /\ sidebar.del.failed \in {"user", "messages"} =>
           /\ conversations[sidebar.del.conv] # Deleted
           /\ sidebar.del.conv \in sidebar.list
    /\ sidebar.del.pc = "conversation" => ~\E r \in rows : r.conv = sidebar.del.conv
    /\ \A c \in sidebar.was \ sidebar.list :
           /\ conversations[c] = Deleted
           /\ ~\E r \in rows : r.conv = c
    /\ Unauthenticated =>
           /\ sidebar.del.pc = "idle" /\ sidebar.list = sidebar.was
           /\ \A c \in sidebar.was :
                  conversations[c] = UserRowId /\ \E r \in rows : r.conv = c

\* C25 witness: one conversation was deleted with its messages and left the
\* list, and a later deletion failed at the messages.
C25_Witness ==
    /\ sidebar.was \ sidebar.list # {}
    /\ sidebar.del.failed = "messages"
    /\ \E r \in rows : r.conv = sidebar.del.conv

\* C26: no upsert of a sync pass changes the conversation id of a row that is
\* in the remote store: each stored message stays in the conversation it was
\* first written to.
C26_StoredRowKeepsConversation ==
    hist.issued.some => hist.issued.moved = {}

\* C27: a reply (or apology) that arrives after loadConversation replaced the
\* list is not appended to the loaded conversation's list, and is not stored
\* under the loaded conversation's id.
C27_LateReplyNotInLoadedConversation ==
    hist.loadedConv # NoConv =>
        /\ hist.late \cap IdsOf(messages) = {}
        /\ ~\E r \in rows : r.id \in hist.late /\ r.conv = hist.loadedConv

\* C28: the callers of ensureConversationExists of one page session (mount
\* effect, debounced sync, forced sync) together insert at most one
\* conversation row, and the id cached once they are done is the id of that row.
C28_OneConversationPerSession ==
    ~hist.restored =>
        /\ Len(conversations) <= Len(InitConversations) + 1
        /\ (hist.loadedConv = NoConv /\ currentConversationIdRef # NoConv) =>
               currentConversationIdRef = Len(InitConversations) + 1

\* C29: every syncMessages pass resets isSyncing when it ends, whatever the
\* exit path; once no pass is in flight the flag is false, and a non-forced
\* sync of a signed-in user is then not dropped by the guard.
C29_SyncingFlagNotStuck ==
    /\ hist.fin.some => ~isSyncingRef
    /\ (\A p \in passes : p.origin = "mount") =>
           /\ ~isSyncingRef
           /\ auth => CanSync(Eng, FALSE)

\* C29 witness: a pass ended on an upsert error and nothing is in flight.
C29_Witness ==
    /\ hist.fin.some /\ hist.fin.fail = "upsert"
    /\ passes = {} /\ ~isSyncingRef

====
